---- MODULE Spec2Model ----
(***************************************************************************)
(* Model of src/analysis.py (main): the resistance statistics pipeline.    *)
(*                                                                         *)
(* Indices are 0-based as in the Python source; At(arr, k) reads the k-th  *)
(* element of a (1-based) TLA+ sequence.  Real numbers are exact rationals *)
(* <<numerator, denominator>> in lowest terms with a positive denominator. *)
(* The float percentages (R / 118) * 100 are ordered exactly as these      *)
(* rationals are (distinct counts differ by far more than one rounding),   *)
(* and equal counts give equal floats, so argmax/argmin see the same       *)
(* order and the same ties.  A p-value is the chi-square survival function *)
(* of (statistic, degrees of freedom) and is carried as that pair.         *)
(***************************************************************************)
EXTENDS Integers, Sequences, FiniteSets, TLC

VARIABLES
    pc,             \* position of main() in the script
    S_counts,       \* line 64
    res_percent,    \* line 80
    avg_resistance, \* line 81
    max_res_idx,    \* line 82 (0-based)
    min_res_idx,    \* line 83 (0-based)
    scan,           \* position of the running argmax / argmin scan (0-based)
    int_Milad,      \* line 122
    int_Rasul,      \* line 123
    idx,            \* loop variable of line 126 (0-based)
    contingency,    \* line 134
    observed,       \* the table handed to stats.chi2_contingency
    caller,         \* which call site is inside chi2_contingency
    cell,           \* next cell of the statistic's sum (0-based, row-major)
    acc,            \* running sum of (observed - expected)^2 / expected
    files,          \* image files written
    out             \* lines printed, in order

summaryVars == <<S_counts, res_percent, avg_resistance, max_res_idx, min_res_idx, scan>>
hospVars == <<int_Milad, int_Rasul, idx, contingency>>
chiVars == <<observed, caller, cell, acc>>
ioVars == <<files, out>>
vars == <<pc, summaryVars, hospVars, chiVars, ioVars>>

----------------------------------------------------------------------------
(* Bounds of the function-level specification SpecOps.                     *)

MaxCols == 3
MaxCell == 2
MaxLen == 3
MaxCount == 2

----------------------------------------------------------------------------
(* The literal data of main().                                             *)

antibiotics ==
    << "Meropenem", "Imipenem", "Ceftriaxone", "Piperacillin-Tazobactam",
       "Ciprofloxacin", "Tobramycin", "Cefotaxime", "Gentamicin",
       "Ceftazidime", "Amikacin", "Cefepime", "TMP-SMX", "Doxycycline" >>

NumDrugs == Len(antibiotics)

Total == 118
TotalMilad == 68
TotalRasul == 50

R_counts == <<118, 118, 118, 118, 118, 118, 115, 114, 114, 106, 99, 99, 45>>
I_counts == <<0, 0, 0, 0, 0, 0, 3, 1, 1, 2, 4, 5, 6>>

res_Milad == <<68, 68, 68, 68, 68, 68, 66, 66, 66, 60, 56, 57, 25>>
res_Rasul == <<50, 50, 50, 50, 50, 50, 49, 48, 48, 46, 43, 42, 20>>
sus_Milad == <<0, 0, 0, 0, 0, 0, 0, 2, 2, 7, 10, 8, 39>>
sus_Rasul == <<0, 0, 0, 0, 0, 0, 0, 1, 2, 3, 5, 6, 28>>

colistin_table == << <<62, 5, 1>>, <<46, 2, 2>> >>

counts_milad == <<2, 2, 1, 1, 0, 0, 1>>
counts_rasul_typo == <<1, 1, 0, 0, 0, 1, 0>>
counts_rasul == <<1, 1, 0, 0, 1, 1, 0>>
ST_table == <<counts_milad, counts_rasul>>

At(arr, k) == arr[k + 1]

----------------------------------------------------------------------------
(* Exact rational arithmetic.                                              *)

Abs(x) == IF x < 0 THEN -x ELSE x

\* The element of a one-element set.  The operators below bind their operands
\* through one-element sets so that each operand is computed once.
Only(S) == CHOOSE r \in S : TRUE

RECURSIVE GCD(_, _)
GCD(a, b) == Only({ IF p[2] = 0 THEN p[1] ELSE GCD(p[2], p[1] % p[2]) : p \in {<<a, b>>} })

Rat(n, d) ==
    Only({ Only({ <<p[1] \div g, p[2] \div g>> : g \in {GCD(Abs(p[1]), p[2])} })
           : p \in {<<n, d>>} })

Zero == <<0, 1>>
NaN == <<0, 0>>

\* x + y over the least common denominator l
RatAdd(x, y) ==
    Only({ Only({ Rat(p[1][1] * (l \div p[1][2]) + p[2][1] * (l \div p[2][2]), l)
                  : l \in {(p[1][2] \div GCD(p[1][2], p[2][2])) * p[2][2]} })
           : p \in {<<x, y>>} })

RatLess(x, y) == x[1] * y[2] < y[1] * x[2]

\* sum of the first n elements
RECURSIVE RatSumTo(_, _)
RatSumTo(s, n) == IF n = 0 THEN Zero ELSE RatAdd(RatSumTo(s, n - 1), s[n])

RatSum(s) == RatSumTo(s, Len(s))

RECURSIVE SumTo(_, _)
SumTo(s, n) == IF n = 0 THEN 0 ELSE SumTo(s, n - 1) + s[n]

SumSeq(s) == SumTo(s, Len(s))

----------------------------------------------------------------------------
(* Element-wise derivations of main().                                     *)

\* total - a (the second category is not subtracted)
RemainderDropsSecond(total, a, b) == total - a

\* 118 - R_counts - I_counts, 68 - res_Milad - sus_Milad, 50 - res_Rasul - sus_Rasul
Remainder(total, a, b) == total - a - b

\* (R_counts / 118) * 100
Percent(r, total) == Rat(r * 100, total)

Mean(ps) == LET s == RatSum(ps) IN Rat(s[1], s[2] * Len(ps))

\* One step of np.argmax: a later index takes over on ties too.
ArgmaxStepLast(arr, best, i) == IF RatLess(At(arr, i), At(arr, best)) THEN best ELSE i

\* One step of np.argmax: index i takes over only when strictly greater.
ArgmaxStep(arr, best, i) == IF RatLess(At(arr, best), At(arr, i)) THEN i ELSE best

\* One step of np.argmin: index i takes over only when strictly smaller.
ArgminStep(arr, best, i) == IF RatLess(At(arr, i), At(arr, best)) THEN i ELSE best

RECURSIVE ArgmaxFrom(_, _, _)
ArgmaxFrom(arr, best, i) ==
    IF i >= Len(arr) THEN best ELSE ArgmaxFrom(arr, ArgmaxStep(arr, best, i), i + 1)

RECURSIVE ArgminFrom(_, _, _)
ArgminFrom(arr, best, i) ==
    IF i >= Len(arr) THEN best ELSE ArgminFrom(arr, ArgminStep(arr, best, i), i + 1)

Argmax(arr) == ArgmaxFrom(arr, 0, 1)
Argmin(arr) == ArgminFrom(arr, 0, 1)

----------------------------------------------------------------------------
(* Contingency tables.                                                     *)

\* rows and columns exchanged
Contingency2x2Swapped(ra, rb) == << <<ra, TotalMilad - ra>>, <<rb, TotalRasul - rb>> >>

\* lines 129-134
Contingency2x2(ra, rb) == << <<ra, rb>>, <<TotalMilad - ra, TotalRasul - rb>> >>

NumRows(t) == Len(t)
NumCols(t) == Len(t[1])
NumCells(t) == NumRows(t) * NumCols(t)
RowTotal(t, i) == SumSeq(t[i])

RECURSIVE ColSumTo(_, _, _)
ColSumTo(t, j, n) == IF n = 0 THEN 0 ELSE ColSumTo(t, j, n - 1) + t[n][j]

ColTotal(t, j) == ColSumTo(t, j, NumRows(t))

RECURSIVE RowSumsTo(_, _)
RowSumsTo(t, n) == IF n = 0 THEN 0 ELSE RowSumsTo(t, n - 1) + RowTotal(t, n)

GrandTotal(t) == RowSumsTo(t, NumRows(t))
Transpose(t) == [j \in 1..NumCols(t) |-> [i \in 1..NumRows(t) |-> t[i][j]]]

\* only the resistant row is inspected
AnyZeroFirstRow(t) == \E j \in 1..NumCols(t) : t[1][j] = 0

\* np.any(contingency == 0), line 137
AnyZero(t) == \E i \in 1..NumRows(t), j \in 1..NumCols(t) : t[i][j] = 0

HasZeroMarginal(t) ==
    \/ \E i \in 1..NumRows(t) : RowTotal(t, i) = 0
    \/ \E j \in 1..NumCols(t) : ColTotal(t, j) = 0

\* the observed cells are inspected instead of the expected ones
HasZeroObserved(t) == \E i \in 1..NumRows(t), j \in 1..NumCols(t) : t[i][j] = 0

\* chi2_contingency: expected = outer(row totals, column totals) / grand total;
\* "if np.any(expected == 0): raise ValueError"
HasZeroExpected(t) ==
    \E i \in 1..NumRows(t), j \in 1..NumCols(t) : RowTotal(t, i) * ColTotal(t, j) = 0

\* degrees of freedom with the column count not reduced
DofColsNotReduced(t) == (NumRows(t) - 1) * NumCols(t)

\* chi2_contingency: dof = (rows - 1) * (cols - 1)
Dof(t) == (NumRows(t) - 1) * (NumCols(t) - 1)

\* (observed - expected)^2 / expected of cell k (0-based, row-major), with
\* expected = r * c / n, i.e. (observed * n - r * c)^2 / (n * r * c)
CellTerm(t, k) ==
    LET i == (k \div NumCols(t)) + 1
        j == (k % NumCols(t)) + 1
        r == RowTotal(t, i)
        c == ColTotal(t, j)
        n == GrandTotal(t)
        d == t[i][j] * n - r * c
    IN  Rat(d * d, n * r * c)

RECURSIVE StatisticFrom(_, _, _)
StatisticFrom(t, sum, k) ==
    IF k >= NumCells(t) THEN sum ELSE StatisticFrom(t, RatAdd(sum, CellTerm(t, k)), k + 1)

Statistic(t) == StatisticFrom(t, Zero, 0)

\* How stats.chi2_contingency(t, correction=False) ends.
Chi2Outcome(t) ==
    IF GrandTotal(t) = 0 THEN "nan"
    ELSE IF HasZeroExpected(t) THEN "raise"
    ELSE "computed"

Chi2Contingency(t) ==
    IF Chi2Outcome(t) = "computed"
    THEN [kind |-> "computed", chi2 |-> Statistic(t), dof |-> Dof(t)]
    ELSE [kind |-> Chi2Outcome(t)]

\* Body of the hospital loop (lines 137-141) for one table.
CompareOutcome(t) == IF AnyZero(t) THEN "undefined" ELSE Chi2Outcome(t)

----------------------------------------------------------------------------
(* The run of main(), one action per step of the script.                   *)

Init ==
    /\ pc = "totals"
    /\ S_counts = <<>>
    /\ res_percent = <<>>
    /\ avg_resistance = Zero
    /\ max_res_idx = 0
    /\ min_res_idx = 0
    /\ scan = 0
    /\ int_Milad = <<>>
    /\ int_Rasul = <<>>
    /\ idx = 0
    /\ contingency = <<>>
    /\ observed = <<>>
    /\ caller = "none"
    /\ cell = 0
    /\ acc = Zero
    /\ files = {}
    /\ out = <<>>

\* lines 62-77: S_counts, df_total and its printout
BuildTotals ==
    /\ pc = "totals"
    /\ S_counts' = [k \in 1..NumDrugs |-> Remainder(Total, R_counts[k], I_counts[k])]
    /\ out' = Append(out, [kind |-> "table",
                           rows |-> [k \in 1..NumDrugs |->
                                       [label |-> antibiotics[k], R |-> R_counts[k],
                                        I |-> I_counts[k], S |-> S_counts'[k]]]])
    /\ pc' = "percent"
    /\ UNCHANGED <<res_percent, avg_resistance, max_res_idx, min_res_idx, scan,
                   hospVars, chiVars, files>>

\* lines 80-81; the scans of lines 82-83 start at element 0
ComputePercent ==
    /\ pc = "percent"
    /\ res_percent' = [k \in 1..NumDrugs |-> Percent(R_counts[k], Total)]
    /\ avg_resistance' = Mean(res_percent')
    /\ max_res_idx' = 0
    /\ scan' = 1
    /\ pc' = "argmax"
    /\ UNCHANGED <<S_counts, min_res_idx, hospVars, chiVars, ioVars>>

\* line 82: np.argmax visits the elements in index order
ArgmaxScan ==
    /\ pc = "argmax"
    /\ max_res_idx' = ArgmaxStep(res_percent, max_res_idx, scan)
    /\ IF scan + 1 < Len(res_percent)
       THEN scan' = scan + 1 /\ pc' = "argmax" /\ UNCHANGED min_res_idx
       ELSE scan' = 1 /\ pc' = "argmin" /\ min_res_idx' = 0
    /\ UNCHANGED <<S_counts, res_percent, avg_resistance, hospVars, chiVars, ioVars>>

\* line 83: np.argmin visits the elements in index order
ArgminScan ==
    /\ pc = "argmin"
    /\ min_res_idx' = ArgminStep(res_percent, min_res_idx, scan)
    /\ IF scan + 1 < Len(res_percent)
       THEN scan' = scan + 1 /\ pc' = "argmin"
       ELSE scan' = scan /\ pc' = "summary"
    /\ UNCHANGED <<S_counts, res_percent, avg_resistance, max_res_idx,
                   hospVars, chiVars, ioVars>>

\* lines 84-90
PrintSummary ==
    /\ pc = "summary"
    /\ out' = Append(out, [kind |-> "summary", mean |-> avg_resistance,
                           highest |-> At(antibiotics, max_res_idx),
                           highest_pct |-> At(res_percent, max_res_idx),
                           lowest |-> At(antibiotics, min_res_idx),
                           lowest_pct |-> At(res_percent, min_res_idx)])
    /\ pc' = "bar"
    /\ UNCHANGED <<summaryVars, hospVars, chiVars, files>>

\* lines 93-101
SaveBarChart ==
    /\ pc = "bar"
    /\ files' = files \cup {"Resistance_BarChart.png"}
    /\ pc' = "pie"
    /\ UNCHANGED <<summaryVars, hospVars, chiVars, out>>

\* lines 104-115
SavePieChart ==
    /\ pc = "pie"
    /\ files' = files \cup {"Colistin_PieChart.png"}
    /\ pc' = "hospital"
    /\ UNCHANGED <<summaryVars, hospVars, chiVars, out>>

\* lines 118-125
HospitalCounts ==
    /\ pc = "hospital"
    /\ int_Milad' = [k \in 1..NumDrugs |-> Remainder(TotalMilad, res_Milad[k], sus_Milad[k])]
    /\ int_Rasul' = [k \in 1..NumDrugs |-> Remainder(TotalRasul, res_Rasul[k], sus_Rasul[k])]
    /\ idx' = 0
    /\ pc' = "loop"
    /\ UNCHANGED <<summaryVars, contingency, chiVars, ioVars>>

\* "break": the loop is left
BreakLoop(i) == NumDrugs

\* "continue" (line 139) and the end of the loop body: on to the next drug
Continue(i) == i + 1

AfterDrug(i) == IF Continue(i) < NumDrugs THEN "loop" ELSE "colistin"

\* lines 126-134
LoopBuild ==
    /\ pc = "loop"
    /\ idx < NumDrugs
    /\ contingency' = Contingency2x2(At(res_Milad, idx), At(res_Rasul, idx))
    /\ pc' = "check"
    /\ UNCHANGED <<summaryVars, int_Milad, int_Rasul, idx, chiVars, ioVars>>

\* lines 137-140: the zero check, then either the "cannot compute" line and
\* continue, or the call of chi2_contingency
LoopCheck ==
    /\ pc = "check"
    /\ IF AnyZero(contingency)
       THEN /\ out' = Append(out, [kind |-> "undefined", label |-> At(antibiotics, idx)])
            /\ idx' = Continue(idx)
            /\ pc' = AfterDrug(idx)
            /\ UNCHANGED chiVars
       ELSE /\ observed' = contingency
            /\ caller' = "loop"
            /\ pc' = "chi2"
            /\ UNCHANGED <<idx, cell, acc, out>>
    /\ UNCHANGED <<summaryVars, int_Milad, int_Rasul, contingency, files>>

\* chi2_contingency: the expected frequencies and their zero check
Chi2Enter ==
    /\ pc = "chi2"
    /\ cell' = 0
    /\ IF Chi2Outcome(observed) = "raise"
       THEN pc' = "aborted" /\ acc' = acc
       ELSE IF Chi2Outcome(observed) = "nan"
       THEN pc' = "report" /\ acc' = NaN
       ELSE pc' = "accum" /\ acc' = Zero
    /\ UNCHANGED <<summaryVars, hospVars, observed, caller, ioVars>>

\* chi2_contingency: the sum over the cells
Chi2Cell ==
    /\ pc = "accum"
    /\ acc' = RatAdd(acc, CellTerm(observed, cell))
    /\ cell' = cell + 1
    /\ pc' = IF cell + 1 < NumCells(observed) THEN "accum" ELSE "report"
    /\ UNCHANGED <<summaryVars, hospVars, observed, caller, ioVars>>

\* line 141
PrintP ==
    /\ pc = "report"
    /\ caller = "loop"
    /\ out' = Append(out, [kind |-> "p", label |-> At(antibiotics, idx),
                           chi2 |-> acc, dof |-> Dof(observed)])
    /\ idx' = Continue(idx)
    /\ pc' = AfterDrug(idx)
    /\ UNCHANGED <<summaryVars, int_Milad, int_Rasul, contingency, chiVars, files>>

\* lines 145-146: the call
ColistinTest ==
    /\ pc = "colistin"
    /\ observed' = colistin_table
    /\ caller' = "colistin"
    /\ pc' = "chi2"
    /\ UNCHANGED <<summaryVars, hospVars, cell, acc, ioVars>>

\* lines 147-149
PrintColistin ==
    /\ pc = "report"
    /\ caller = "colistin"
    /\ out' = Append(out, [kind |-> "colistin", chi2 |-> acc, dof |-> Dof(observed)])
    /\ pc' = "st"
    /\ UNCHANGED <<summaryVars, hospVars, chiVars, files>>

\* lines 153-157: the call
STTest ==
    /\ pc = "st"
    /\ observed' = ST_table
    /\ caller' = "st"
    /\ pc' = "chi2"
    /\ UNCHANGED <<summaryVars, hospVars, cell, acc, ioVars>>

\* lines 158-160, and the return of main()
PrintST ==
    /\ pc = "report"
    /\ caller = "st"
    /\ out' = Append(out, [kind |-> "st", chi2 |-> acc, dof |-> Dof(observed)])
    /\ pc' = "done"
    /\ UNCHANGED <<summaryVars, hospVars, chiVars, files>>

Next ==
    \/ BuildTotals
    \/ ComputePercent
    \/ ArgmaxScan
    \/ ArgminScan
    \/ PrintSummary
    \/ SaveBarChart
    \/ SavePieChart
    \/ HospitalCounts
    \/ LoopBuild
    \/ LoopCheck
    \/ Chi2Enter
    \/ Chi2Cell
    \/ PrintP
    \/ ColistinTest
    \/ PrintColistin
    \/ STTest
    \/ PrintST

Spec == Init /\ [][Next]_vars

\* The script is one thread that runs each statement in turn.
FairSpec == Spec /\ WF_vars(Next)

----------------------------------------------------------------------------
(* Function-level specification: the loop body, the extrema and the        *)
(* chi-square routine applied once to an input drawn from a bounded set.   *)

OpsInit ==
    /\ pc = "ops"
    /\ S_counts = <<>>
    /\ res_percent = <<>>
    /\ avg_resistance = Zero
    /\ max_res_idx = 0
    /\ min_res_idx = 0
    /\ scan = 0
    /\ int_Milad = <<>>
    /\ int_Rasul = <<>>
    /\ idx = 0
    /\ contingency = <<>>
    /\ observed = <<>>
    /\ caller = "none"
    /\ cell = 0
    /\ acc = Zero
    /\ files = {}
    /\ out = <<>>

\* lines 129-141 for resistant counts ra of 68 and rb of 50
OpCompare ==
    /\ pc = "ops"
    /\ \E ra \in 0..TotalMilad, rb \in 0..TotalRasul :
          /\ contingency' = Contingency2x2(ra, rb)
          /\ out' = <<[kind |-> CompareOutcome(contingency')]>>
    /\ pc' = "compared"
    /\ UNCHANGED <<summaryVars, int_Milad, int_Rasul, idx, chiVars, files>>

\* lines 80-83 for counts out of MaxCount
OpExtrema ==
    /\ pc = "ops"
    /\ \E n \in 1..MaxLen : \E counts \in [1..n -> 0..MaxCount] :
          /\ res_percent' = [k \in 1..n |-> Percent(counts[k], MaxCount)]
          /\ avg_resistance' = Mean(res_percent')
          /\ max_res_idx' = Argmax(res_percent')
          /\ min_res_idx' = Argmin(res_percent')
    /\ pc' = "extrema"
    /\ UNCHANGED <<S_counts, scan, hospVars, chiVars, ioVars>>

\* stats.chi2_contingency(t, correction=False) for a table of two rows, and
\* for its transpose
OpChi2 ==
    /\ pc = "ops"
    /\ \E c \in 1..MaxCols : \E t \in [1..2 -> [1..c -> 0..MaxCell]] :
          /\ observed' = t
          /\ out' = <<Chi2Contingency(t), Chi2Contingency(Transpose(t))>>
    /\ pc' = "tested"
    /\ UNCHANGED <<summaryVars, hospVars, caller, cell, acc, files>>

OpsNext == OpCompare \/ OpExtrema \/ OpChi2

SpecOps == OpsInit /\ [][OpsNext]_vars

----------------------------------------------------------------------------
(* Properties.                                                             *)

Hundred == <<100, 1>>
InPercentRange(p) == ~RatLess(p, Zero) /\ ~RatLess(Hundred, p)

IsBatchLine(r) == r.kind \in {"undefined", "p"}
BatchLines == SelectSeq(out, IsBatchLine)
InChi2 == pc \in {"chi2", "accum", "report"}
InLoop == pc \in {"loop", "check"} \/ (InChi2 /\ caller = "loop")
LoopFinished == pc \in {"colistin", "st", "done"} \/ (InChi2 /\ caller \in {"colistin", "st"})

\* The stepwise runs of the pipeline agree with the whole-function operators.
StepsAgree ==
    /\ pc = "argmin" => max_res_idx = Argmax(res_percent)
    /\ pc = "summary" => min_res_idx = Argmin(res_percent)
    /\ pc = "report" => acc = Statistic(observed)

\* C1: in the hospital comparison of [[ra, rb], [68 - ra, 50 - rb]] the result
\* is the "cannot compute" marker only when some row or column total is zero;
\* a zero observed cell with nonzero totals gets a computed result.
C1_UndefinedOnlyOnZeroMarginal ==
    pc = "compared" =>
        /\ out[1].kind = "undefined" => HasZeroMarginal(contingency)
        /\ ~HasZeroMarginal(contingency) => out[1].kind = "computed"

\* C2: every hospital-comparison table with a zero row or column total takes
\* the "cannot compute" branch: it is not handed to the chi-square routine,
\* nothing is raised and no numeric or NaN p-value is produced.
C2_ZeroMarginalIsUndefined ==
    (pc = "compared" /\ HasZeroMarginal(contingency)) => out[1].kind = "undefined"

C2_Witness ==
    /\ pc = "compared"
    /\ contingency = << <<68, 50>>, <<0, 0>> >>
    /\ out[1].kind = "undefined"

\* C3: the batch emits one result per antibiotic, the k-th with the k-th
\* label; an undefined result does not stop it: after the loop there are 13
\* results, the first six undefined and the other seven computed.
C3_BatchInOrder ==
    /\ Len(BatchLines) <= NumDrugs
    /\ \A k \in 1..Len(BatchLines) : BatchLines[k].label = antibiotics[k]
    /\ InLoop => Len(BatchLines) = idx
    /\ LoopFinished =>
          /\ Len(BatchLines) = 13
          /\ \A k \in 1..6 : BatchLines[k].kind = "undefined"
          /\ \A k \in 7..13 : BatchLines[k].kind = "p"

C3_Witness ==
    /\ pc = "done"
    /\ Len(BatchLines) = 13
    /\ BatchLines[6] = [kind |-> "undefined", label |-> "Tobramycin"]
    /\ BatchLines[13].label = "Doxycycline"
    /\ BatchLines[13].kind = "p"

\* C4: for every antibiotic and grouping (overall 118, Milad 68, Rasul Akram
\* 50) the three counts are non-negative and sum to the total, so the
\* resistant count is within [0, total] and its percentage within [0, 100].
C4_CountsPartitionTotal ==
    /\ S_counts # <<>> =>
          \A k \in 1..NumDrugs :
             /\ R_counts[k] >= 0 /\ I_counts[k] >= 0 /\ S_counts[k] >= 0
             /\ R_counts[k] + I_counts[k] + S_counts[k] = 118
             /\ R_counts[k] \in 0..118
             /\ InPercentRange(Percent(R_counts[k], 118))
    /\ res_percent # <<>> => \A k \in 1..Len(res_percent) : InPercentRange(res_percent[k])
    /\ int_Milad # <<>> =>
          \A k \in 1..NumDrugs :
             /\ res_Milad[k] >= 0 /\ int_Milad[k] >= 0 /\ sus_Milad[k] >= 0
             /\ res_Milad[k] + int_Milad[k] + sus_Milad[k] = 68
             /\ res_Milad[k] \in 0..68
             /\ InPercentRange(Percent(res_Milad[k], 68))
             /\ res_Rasul[k] >= 0 /\ int_Rasul[k] >= 0 /\ sus_Rasul[k] >= 0
             /\ res_Rasul[k] + int_Rasul[k] + sus_Rasul[k] = 50
             /\ res_Rasul[k] \in 0..50
             /\ InPercentRange(Percent(res_Rasul[k], 50))

C4_Witness ==
    /\ pc = "loop"
    /\ S_counts[13] = 67
    /\ int_Milad[7] = 2
    /\ int_Rasul[13] = 2
    /\ res_percent[1] = Hundred

IsMax(arr, m) == \A k \in 0..(Len(arr) - 1) : ~RatLess(At(arr, m), At(arr, k))
IsMin(arr, m) == \A k \in 0..(Len(arr) - 1) : ~RatLess(At(arr, k), At(arr, m))
FirstMax(arr) == CHOOSE m \in 0..(Len(arr) - 1) :
                    IsMax(arr, m) /\ \A k \in 0..(m - 1) : ~IsMax(arr, k)
FirstMin(arr) == CHOOSE m \in 0..(Len(arr) - 1) :
                    IsMin(arr, m) /\ \A k \in 0..(m - 1) : ~IsMin(arr, k)
ProgramPercent == [k \in 1..NumDrugs |-> Percent(R_counts[k], Total)]

\* C5: the highest is the smallest index attaining the maximum percentage and
\* the lowest the smallest index attaining the minimum; on the program's data
\* (six antibiotics at 118/118) these are Meropenem (0) and Doxycycline (12).
C5_FirstOccurrenceExtrema ==
    /\ pc = "extrema" =>
          /\ max_res_idx = FirstMax(res_percent)
          /\ min_res_idx = FirstMin(res_percent)
    /\ Cardinality({k \in 1..NumDrugs : ProgramPercent[k] = Hundred}) = 6
    /\ Argmax(ProgramPercent) = 0
    /\ At(antibiotics, Argmax(ProgramPercent)) = "Meropenem"
    /\ Argmin(ProgramPercent) = 12
    /\ At(antibiotics, Argmin(ProgramPercent)) = "Doxycycline"

C5_Witness ==
    /\ pc = "extrema"
    /\ Len(res_percent) = 3
    /\ res_percent[1] = res_percent[3]
    /\ res_percent[2] = res_percent[3]
    /\ max_res_idx = 0
    /\ min_res_idx = 0

\* C6: for every antibiotic index the table is [[resistant Milad, resistant
\* Rasul], [68 - resistant Milad, 50 - resistant Rasul]]: column totals 68 and
\* 50, grand total 118, each non-resistant cell = susceptible + intermediate.
C6_TableShape ==
    (pc = "check" \/ (InChi2 /\ caller = "loop")) =>
        /\ contingency[1] = <<At(res_Milad, idx), At(res_Rasul, idx)>>
        /\ contingency[2] = <<68 - At(res_Milad, idx), 50 - At(res_Rasul, idx)>>
        /\ ColTotal(contingency, 1) = 68
        /\ ColTotal(contingency, 2) = 50
        /\ GrandTotal(contingency) = 118
        /\ contingency[2][1] = At(sus_Milad, idx) + At(int_Milad, idx)
        /\ contingency[2][2] = At(sus_Rasul, idx) + At(int_Rasul, idx)

C6_Witness ==
    /\ pc = "check"
    /\ idx = 12
    /\ contingency = << <<25, 20>>, <<43, 30>> >>

\* C7: for every table with all row and column totals nonzero, the exact
\* Pearson statistic and the degrees of freedom of the table and of its
\* transpose are the same.
C7_TransposeSymmetric ==
    (pc = "tested" /\ ~HasZeroMarginal(observed)) =>
        /\ out[1].kind = "computed"
        /\ out[2].kind = "computed"
        /\ out[1].chi2 = out[2].chi2
        /\ out[1].dof = out[2].dof

C7_Witness ==
    /\ pc = "tested"
    /\ observed = << <<2, 1, 0>>, <<0, 1, 2>> >>
    /\ out[1].kind = "computed"
    /\ out[1].chi2 # Zero
    /\ out[1].dof = 2

OutKinds == [k \in 1..Len(out) |-> out[k].kind]
FullReport ==
    <<"table", "summary">>
    \o [k \in 1..13 |-> IF k <= 6 THEN "undefined" ELSE "p"]
    \o <<"colistin", "st">>

C9_NoZeroExpectedAtChi2 ==
    /\ InChi2 =>
          /\ ~HasZeroExpected(observed)
          /\ \A i \in 1..NumRows(observed) : RowTotal(observed, i) > 0
          /\ \A j \in 1..NumCols(observed) : ColTotal(observed, j) > 0
    /\ (InChi2 /\ caller = "colistin") => observed = << <<62, 5, 1>>, <<46, 2, 2>> >>
    /\ (InChi2 /\ caller = "st") =>
          /\ observed = << <<2, 2, 1, 1, 0, 0, 1>>, <<1, 1, 0, 0, 1, 1, 0>> >>
          /\ AnyZero(observed)
    /\ \A k \in 1..Len(out) :
          /\ out[k].kind = "colistin" => (out[k].dof = 2 /\ out[k].chi2 # NaN)
          /\ out[k].kind = "st" => (out[k].dof = 6 /\ out[k].chi2 # NaN)
    /\ pc = "done" => (out[Len(out) - 1].kind = "colistin" /\ out[Len(out)].kind = "st")

C9_Witness ==
    /\ pc = "done"
    /\ out[Len(out)].kind = "st"
    /\ out[Len(out)].dof = 6
    /\ out[Len(out) - 1].dof = 2
    /\ AnyZero(observed)

\* C10: for each antibiotic and each category, the Milad count plus the Rasul
\* Akram count equals the overall count of the 118-isolate table.
C10_HospitalsSumToOverall ==
    int_Milad # <<>> =>
        \A k \in 1..NumDrugs :
           /\ res_Milad[k] + res_Rasul[k] = R_counts[k]
           /\ int_Milad[k] + int_Rasul[k] = I_counts[k]
           /\ sus_Milad[k] + sus_Rasul[k] = S_counts[k]

====
